---- MODULE Spec2Model ----
(***************************************************************************)
(* AnimeWatchOrder static site generator (build.py).                       *)
(*                                                                         *)
(* Two specifications over one set of variables:                           *)
(*   Spec    the orchestrator main(): load every series, write the series  *)
(*           pages, the homepages and the sitemap; the process may be run  *)
(*           again on the same data directory.                             *)
(*   SpecFn  the pure functions (formatters, fragment renderers, page      *)
(*           assemblers, sitemap builder) applied to inputs drawn from     *)
(*           bounded sets.                                                 *)
(*                                                                         *)
(* Representation.  A Python dict is a TLA+ function (record) whose DOMAIN *)
(* is the dict's key set.  An HTML/XML fragment is the tuple of the values *)
(* its f-string interpolates, in template order, led by a tag naming the   *)
(* static markup around them; a "\n".join of fragments is their sequence.  *)
(* A raised KeyError is the value KeyError (formatters) or the predicate   *)
(* <name>_raises (renderers).                                              *)
(***************************************************************************)
EXTENDS Integers, Sequences, FiniteSets, TLC

VARIABLES
    datadir,      \* DATA_DIR: slug -> the state of data/<slug>.json
    pc,           \* position of main(): load, series, home, sitemap, done, exit, error
    exit_code,    \* exit status of the process (0, 1 or 120), -1 while it runs
    series_list,  \* main's series_list
    idx,          \* index of the (series, language) or language loop of the current step
    fs,           \* output tree under BASE_DIR: path -> the text the file holds
    written,      \* paths whose file the current run has written in full, in order
    run,          \* number of the current run of the program
    prev_fs,      \* the output tree as the previous run left it
    prev_pc,      \* where the previous run ended (done, exit, error), none before the second
    inp,          \* SpecFn: the input of the function under study
    out           \* SpecFn: its result

vars == <<datadir, pc, exit_code, series_list, idx, fs, written, run, prev_fs, prev_pc,
          inp, out>>

----------------------------------------------------------------------------
(* Bounds of the model *)

MaxLen == 2       \* longest timeline / faq sequence of a drawn guide
MaxRows == 1      \* longest films / fillers sequence of a drawn guide
MaxSlugs == 3     \* longest slug list handed to generate_sitemap
MaxRuns == 2      \* runs of the program in succession

----------------------------------------------------------------------------
(* Configuration *)

SITE_URL == "https://animewatchorder.com"

GTM_HEAD == "<!-- Google Tag Manager --><script>...'GTM-TJ84SLJX'...</script><!-- End Google Tag Manager -->"

GOOGLE_SITE_VERIFICATION == "<meta name=\"google-site-verification\" content=\"NC4herujRe5TMX77VnhqjvWdJa6XAwBd5iAVIGxwXbk\" />"

SERIES == <<"dragon-ball", "naruto">>

\* the French page first
LangsReversed == <<"fr", "en">>

\* the list ["en", "fr"] both language loops run over
Langs == <<"en", "fr">>

----------------------------------------------------------------------------
(* Python helpers *)

\* dict.get(key, default)
Get(d, key, default) == IF key \in DOMAIN d THEN d[key] ELSE default

\* the value standing for a raised KeyError
KeyError == "<KeyError>"

\* the sequences over S of length at most n
SeqUpTo(S, n) == UNION {[1..k -> S] : k \in 0..n}

Range(s) == {s[i] : i \in DOMAIN s}

----------------------------------------------------------------------------
(* Field formatters *)

\* an unknown type is handed back as the class
badge_class_echo(type_key) ==
    LET mapping == [canon |-> "badge--canon",
                    mixed |-> "badge--mixed",
                    film_canon |-> "badge--film-canon",
                    non_canon |-> "badge--non-canon",
                    filler |-> "badge--filler"]
    IN  Get(mapping, type_key, type_key)

badge_class(type_key) ==
    LET mapping == [canon |-> "badge--canon",
                    mixed |-> "badge--mixed",
                    film_canon |-> "badge--film-canon",
                    non_canon |-> "badge--non-canon",
                    filler |-> "badge--filler"]
    IN  Get(mapping, type_key, "badge--canon")

verdict_class(verdict) ==
    LET mapping == [must_watch |-> "verdict--must-watch",
                    watchable |-> "verdict--watchable",
                    skip |-> "verdict--skip"]
    IN  Get(mapping, verdict, "verdict--watchable")

\* the ui keys the mapping literal of verdict_label subscripts
verdict_label_keys == {"must_watch", "watchable", "skip"}

verdict_label(verdict, ui) ==
    IF ~(verdict_label_keys \subseteq DOMAIN ui) THEN KeyError
    ELSE LET mapping == [must_watch |-> ui["must_watch"],
                         watchable |-> ui["watchable"],
                         skip |-> ui["skip"]]
         IN  Get(mapping, verdict, verdict)

\* the ui keys the mapping literal of type_label subscripts ("filler" is a ui.get)
type_label_keys == {"canon", "mixed", "film_canon", "non_canon"}

\* an unknown type gets the label of the canon category
type_label_canon_default(type_key, ui) ==
    IF ~(type_label_keys \subseteq DOMAIN ui) THEN KeyError
    ELSE LET mapping == [canon |-> ui["canon"],
                         mixed |-> ui["mixed"],
                         film_canon |-> ui["film_canon"],
                         non_canon |-> ui["non_canon"],
                         filler |-> Get(ui, "filler", "Filler")]
         IN  Get(mapping, type_key, ui["canon"])

type_label(type_key, ui) ==
    IF ~(type_label_keys \subseteq DOMAIN ui) THEN KeyError
    ELSE LET mapping == [canon |-> ui["canon"],
                         mixed |-> ui["mixed"],
                         film_canon |-> ui["film_canon"],
                         non_canon |-> ui["non_canon"],
                         filler |-> Get(ui, "filler", "Filler")]
         IN  Get(mapping, type_key, type_key)

----------------------------------------------------------------------------
(* Fragment renderers *)

\* Python truthiness of d.get(key) for the flag values of the data (booleans)
Truthy(d, key) == Get(d, key, FALSE) = TRUE

timeline_item_keys == {"num", "title", "subtitle", "type", "episodes", "when", "path", "verdict"}

timeline_row_raises(item, ui) ==
    \/ ~(timeline_item_keys \subseteq DOMAIN item)
    \/ Truthy(item, "recommended") /\ "recommended_label" \notin DOMAIN ui
    \/ ~(type_label_keys \subseteq DOMAIN ui)
    \/ ~(verdict_label_keys \subseteq DOMAIN ui)

\* a row is marked as soon as its entry has a `recommended` key, whatever its value
timeline_row_flag_present(item, ui) ==
    LET rec == "recommended" \in DOMAIN item
        rec_tag == IF rec THEN ui["recommended_label"] ELSE ""
        rec_class == IF rec THEN "row--recommended" ELSE ""
        watch_url == Get(item, "watch_url", "#")
    IN  <<"tr", rec_class, item["num"], item["title"], rec_tag, item["subtitle"],
          badge_class(item["type"]), type_label(item["type"], ui),
          item["episodes"], item["when"], item["path"],
          verdict_class(item["verdict"]), verdict_label(item["verdict"], ui),
          watch_url>>

\* one <tr> of the timeline table
timeline_row(item, ui) ==
    LET rec == Truthy(item, "recommended")
        rec_tag == IF rec THEN ui["recommended_label"] ELSE ""
        rec_class == IF rec THEN "row--recommended" ELSE ""
        watch_url == Get(item, "watch_url", "#")
    IN  <<"tr", rec_class, item["num"], item["title"], rec_tag, item["subtitle"],
          badge_class(item["type"]), type_label(item["type"], ui),
          item["episodes"], item["when"], item["path"],
          verdict_class(item["verdict"]), verdict_label(item["verdict"], ui),
          watch_url>>

build_timeline_rows_raises(data, ui) ==
    \/ "timeline" \notin DOMAIN data
    \/ \E i \in DOMAIN data["timeline"] : timeline_row_raises(data["timeline"][i], ui)

build_timeline_rows(data, ui) ==
    [i \in 1..Len(data["timeline"]) |-> timeline_row(data["timeline"][i], ui)]

film_keys == {"canon", "verdict", "title", "year", "placement"}

build_films_rows_raises(data, ui) ==
    \/ "films" \notin DOMAIN data
    \/ \E i \in DOMAIN data["films"] :
          LET film == data["films"][i]
          IN  \/ ~(film_keys \subseteq DOMAIN film)
              \/ (IF film["canon"] = TRUE THEN "yes" ELSE "no") \notin DOMAIN ui
              \/ ~(verdict_label_keys \subseteq DOMAIN ui)

build_films_rows(data, ui) ==
    [i \in 1..Len(data["films"]) |->
        LET film == data["films"][i]
            canon_class == IF film["canon"] = TRUE THEN "film-canon-yes" ELSE "film-canon-no"
            canon_text == IF film["canon"] = TRUE THEN ui["yes"] ELSE ui["no"]
            v_class == verdict_class(film["verdict"])
            v_label == verdict_label(film["verdict"], ui)
        IN  <<"tr-film", film["title"], film["year"], canon_class, canon_text,
              film["placement"], v_class, v_label>>]

filler_keys == {"verdict", "arc", "episodes", "notes"}

build_fillers_rows_raises(data, ui) ==
    \/ "fillers" \notin DOMAIN data
    \/ \E i \in DOMAIN data["fillers"] :
          \/ ~(filler_keys \subseteq DOMAIN data["fillers"][i])
          \/ ~(verdict_label_keys \subseteq DOMAIN ui)

build_fillers_rows(data, ui) ==
    [i \in 1..Len(data["fillers"]) |->
        LET filler == data["fillers"][i]
            v_class == verdict_class(filler["verdict"])
            v_label == verdict_label(filler["verdict"], ui)
        IN  <<"tr-filler", filler["arc"], filler["episodes"], v_class, v_label,
              filler["notes"]>>]

path_keys == {"icon", "name", "subtitle", "description", "hours", "includes"}

build_paths_html_raises(data, ui) ==
    \/ "paths" \notin DOMAIN data
    \/ \E i \in DOMAIN data["paths"] :
          \/ ~(path_keys \subseteq DOMAIN data["paths"][i])
          \/ Truthy(data["paths"][i], "recommended") /\ "recommended_label" \notin DOMAIN ui

build_paths_html(data, ui) ==
    [i \in 1..Len(data["paths"]) |->
        LET path == data["paths"][i]
            rec == Truthy(path, "recommended")
            rec_badge == IF rec THEN ui["recommended_label"] ELSE ""
            rec_class == IF rec THEN " path-card--recommended" ELSE ""
        IN  <<"path-card", rec_class, rec_badge, path["icon"], path["name"],
              path["subtitle"], path["description"], path["hours"], path["includes"]>>]

build_faq_html_raises(data) ==
    \/ "faq" \notin DOMAIN data
    \/ \E i \in DOMAIN data["faq"] : ~({"question", "answer"} \subseteq DOMAIN data["faq"][i])

build_faq_html(data) ==
    [i \in 1..Len(data["faq"]) |->
        <<"faq-item", data["faq"][i]["question"], data["faq"][i]["answer"]>>]

build_why_confusing_html_raises(data, ui) ==
    \/ "why_confusing" \notin DOMAIN data
    \/ "why_confusing_label" \notin DOMAIN ui
    \/ "content" \notin DOMAIN data["why_confusing"]

build_why_confusing_html(data, ui) ==
    <<"info-box", ui["why_confusing_label"], data["why_confusing"]["content"]>>

build_compare_html_raises(data, ui) ==
    \/ "dbz_vs_kai" \notin DOMAIN data
    \/ ~({"cards", "verdict"} \subseteq DOMAIN data["dbz_vs_kai"])
    \/ \E i \in DOMAIN data["dbz_vs_kai"]["cards"] :
          LET card == data["dbz_vs_kai"]["cards"][i]
          IN  \/ ~({"stats", "title", "subtitle"} \subseteq DOMAIN card)
              \/ Truthy(card, "recommended") /\ "recommended_label" \notin DOMAIN ui
              \/ \E j \in DOMAIN card["stats"] :
                    ~({"label", "value"} \subseteq DOMAIN card["stats"][j])

\* the comparison grid followed by the verdict box
build_compare_html(data, ui) ==
    LET compare == data["dbz_vs_kai"]
        cards == [i \in 1..Len(compare["cards"]) |->
                    LET card == compare["cards"][i]
                        rec_badge == IF Truthy(card, "recommended")
                                     THEN ui["recommended_label"] ELSE ""
                        stats_html == [j \in 1..Len(card["stats"]) |->
                                         <<"compare-card__stat", card["stats"][j]["label"],
                                           card["stats"][j]["value"]>>]
                    IN  <<"compare-card", Get(card, "color_class", ""), rec_badge,
                          card["title"], card["subtitle"], stats_html>>]
        grid == <<"compare-grid", cards>>
        verdict == <<"verdict-box", Get(ui, "compare_verdict_label", "Our Verdict"),
                     compare["verdict"]>>
    IN  <<grid, verdict>>

streaming_keys == {"available", "icon", "platform", "url", "cta"}

build_streaming_html_raises(data, ui) ==
    \/ "streaming" \notin DOMAIN data
    \/ \E i \in DOMAIN data["streaming"] : ~(streaming_keys \subseteq DOMAIN data["streaming"][i])

build_streaming_html(data, ui) ==
    [i \in 1..Len(data["streaming"]) |->
        LET s == data["streaming"][i]
            available_items == [j \in 1..Len(s["available"]) |-> <<"li", s["available"][j]>>]
            \* enumerate() counts from 0: the first card is the primary one
            cta_class == IF i - 1 = 0 THEN "streaming-card__cta--primary" ELSE ""
        IN  <<"streaming-card", s["icon"], s["platform"], available_items, s["url"],
              cta_class, s["cta"]>>]

----------------------------------------------------------------------------
(* Structured data.  json.dumps(schema, indent=2, ensure_ascii=False) writes *)
(* the object out as text, keeping the order of its lists; the model keeps   *)
(* the object that text denotes.                                             *)

series_url(slug, lang) ==
    IF lang = "en" THEN SITE_URL \o "/" \o slug \o "/"
    ELSE SITE_URL \o "/fr/" \o slug \o "/"

build_schema_json_raises(data) ==
    \/ ~({"title", "meta_description", "timeline"} \subseteq DOMAIN data)
    \/ \E i \in DOMAIN data["timeline"] : "title" \notin DOMAIN data["timeline"][i]

\* the steps are named after the entries' subtitles
build_schema_json_subtitle(data, slug, lang) ==
    LET url == series_url(slug, lang)
        step == [i \in 1..Len(data["timeline"]) |->
                    ("@type" :> "HowToStep")
                    @@ ("name" :> data["timeline"][i]["subtitle"])
                    @@ ("text" :> Get(data["timeline"][i], "notes", ""))]
    IN  ("@context" :> "https://schema.org")
        @@ ("@type" :> "HowTo")
        @@ ("name" :> IF lang = "en" THEN data["title"] \o " Watch Order Guide"
                      ELSE data["title"] \o " Guide d'Ordre de Visionnage")
        @@ ("description" :> data["meta_description"])
        @@ ("url" :> url)
        @@ ("datePublished" :> "2026-02-12")
        @@ ("dateModified" :> "2026-02-12")
        @@ ("step" :> step)

build_schema_json(data, slug, lang) ==
    LET url == series_url(slug, lang)
        step == [i \in 1..Len(data["timeline"]) |->
                    ("@type" :> "HowToStep")
                    @@ ("name" :> data["timeline"][i]["title"])
                    @@ ("text" :> Get(data["timeline"][i], "notes", ""))]
    IN  ("@context" :> "https://schema.org")
        @@ ("@type" :> "HowTo")
        @@ ("name" :> IF lang = "en" THEN data["title"] \o " Watch Order Guide"
                      ELSE data["title"] \o " Guide d'Ordre de Visionnage")
        @@ ("description" :> data["meta_description"])
        @@ ("url" :> url)
        @@ ("datePublished" :> "2026-02-12")
        @@ ("dateModified" :> "2026-02-12")
        @@ ("step" :> step)

build_faq_schema_raises(data) ==
    \/ "faq" \notin DOMAIN data
    \/ \E i \in DOMAIN data["faq"] : ~({"question", "answer"} \subseteq DOMAIN data["faq"][i])

build_faq_schema(data) ==
    LET mainEntity == [i \in 1..Len(data["faq"]) |->
                         ("@type" :> "Question")
                         @@ ("name" :> data["faq"][i]["question"])
                         @@ ("acceptedAnswer" :>
                                (("@type" :> "Answer")
                                 @@ ("text" :> data["faq"][i]["answer"])))]
    IN  ("@context" :> "https://schema.org")
        @@ ("@type" :> "FAQPage")
        @@ ("mainEntity" :> mainEntity)

----------------------------------------------------------------------------
(* Page assemblers.  A document is [lang, head, nav, main, footer]: head is  *)
(* the sequence of the head's elements, main the sequence of the sections,   *)
(* each [id, text, fragment] with the scalars it interpolates and the        *)
(* renderer output it embeds (<<>> when it embeds none).  String literals    *)
(* are written in ASCII: an accented letter is its base letter, the dash of  *)
(* the homepage titles a hyphen, the default emoji its code point.           *)

guide_keys == {"ui", "meta_title", "meta_description", "category_tag", "title", "hero",
               "intro", "quick_answer", "dbz_vs_kai", "manga"}

ui_page_keys == {"nav_home", "lang_switch", "quick_answer_label", "paths_heading",
                 "timeline_heading", "col_num", "col_title", "col_type", "col_episodes",
                 "col_when", "col_path", "col_verdict", "col_watch", "faq_heading",
                 "streaming_heading", "footer_text", "footer_affiliate"}

generate_series_page_raises(slug, data, lang) ==
    \/ ~(guide_keys \subseteq DOMAIN data)
    \/ build_why_confusing_html_raises(data, data["ui"])
    \/ build_paths_html_raises(data, data["ui"])
    \/ build_compare_html_raises(data, data["ui"])
    \/ build_timeline_rows_raises(data, data["ui"])
    \/ build_faq_html_raises(data)
    \/ build_streaming_html_raises(data, data["ui"])
    \/ build_schema_json_raises(data)
    \/ build_faq_schema_raises(data)
    \/ ~(ui_page_keys \subseteq DOMAIN data["ui"])
    \/ ~({"series", "films", "hours", "updated"} \subseteq DOMAIN data["hero"])
    \/ ~({"heading", "intro"} \subseteq DOMAIN data["dbz_vs_kai"])
    \/ ~({"title", "description", "link_url", "link_text"} \subseteq DOMAIN data["manga"])

\* the <head> of a series page without the analytics snippet
series_page_head_no_gtm(slug, data, lang, howto_schema, faq_schema) ==
    LET canonical == IF lang = "en" THEN SITE_URL \o "/" \o slug \o "/"
                     ELSE SITE_URL \o "/fr/" \o slug \o "/"
        en_url == SITE_URL \o "/" \o slug \o "/"
        fr_url == SITE_URL \o "/fr/" \o slug \o "/"
    IN  << <<"meta-charset", "UTF-8">>,
           <<"meta-viewport", "width=device-width, initial-scale=1.0">>,
           <<"title", data["meta_title"]>>,
           <<"meta-description", data["meta_description"]>>,
           <<"link-canonical", canonical>>,
           <<"link-alternate", "en", en_url>>,
           <<"link-alternate", "fr", fr_url>>,
           <<"link-alternate", "x-default", en_url>>,
           <<"link-stylesheet", "/assets/css/style.css">>,
           <<"script-ld+json", howto_schema>>,
           <<"script-ld+json", faq_schema>> >>

\* the <head> of a series page whose canonical link is always the English URL
series_page_head_canonical_en(slug, data, lang, howto_schema, faq_schema) ==
    LET canonical == SITE_URL \o "/" \o slug \o "/"
        en_url == SITE_URL \o "/" \o slug \o "/"
        fr_url == SITE_URL \o "/fr/" \o slug \o "/"
    IN  << <<"meta-charset", "UTF-8">>,
           <<"raw", GTM_HEAD>>,
           <<"meta-viewport", "width=device-width, initial-scale=1.0">>,
           <<"title", data["meta_title"]>>,
           <<"meta-description", data["meta_description"]>>,
           <<"link-canonical", canonical>>,
           <<"link-alternate", "en", en_url>>,
           <<"link-alternate", "fr", fr_url>>,
           <<"link-alternate", "x-default", en_url>>,
           <<"link-stylesheet", "/assets/css/style.css">>,
           <<"script-ld+json", howto_schema>>,
           <<"script-ld+json", faq_schema>> >>

\* the <head> of a series page, with the URLs computed for it
series_page_head(slug, data, lang, howto_schema, faq_schema) ==
    LET canonical == IF lang = "en" THEN SITE_URL \o "/" \o slug \o "/"
                     ELSE SITE_URL \o "/fr/" \o slug \o "/"
        en_url == SITE_URL \o "/" \o slug \o "/"
        fr_url == SITE_URL \o "/fr/" \o slug \o "/"
    IN  << <<"meta-charset", "UTF-8">>,
           <<"raw", GTM_HEAD>>,
           <<"meta-viewport", "width=device-width, initial-scale=1.0">>,
           <<"title", data["meta_title"]>>,
           <<"meta-description", data["meta_description"]>>,
           <<"link-canonical", canonical>>,
           <<"link-alternate", "en", en_url>>,
           <<"link-alternate", "fr", fr_url>>,
           <<"link-alternate", "x-default", en_url>>,
           <<"link-stylesheet", "/assets/css/style.css">>,
           <<"script-ld+json", howto_schema>>,
           <<"script-ld+json", faq_schema>> >>

generate_series_page(slug, data, lang) ==
    LET ui == data["ui"]
        lang_prefix == IF lang = "fr" THEN "/fr" ELSE ""
        other_lang == IF lang = "en" THEN "fr" ELSE "en"
        other_prefix == IF other_lang = "fr" THEN "/fr" ELSE ""
        home_url == lang_prefix \o "/"
        lang_switch_url == other_prefix \o "/" \o slug \o "/"
        why_confusing_html == build_why_confusing_html(data, ui)
        paths_html == build_paths_html(data, ui)
        compare_html == build_compare_html(data, ui)
        timeline_rows == build_timeline_rows(data, ui)
        faq_html == build_faq_html(data)
        streaming_html == build_streaming_html(data, ui)
        howto_schema == build_schema_json(data, slug, lang)
        faq_schema == build_faq_schema(data)
    IN  [lang |-> lang,
         head |-> series_page_head(slug, data, lang, howto_schema, faq_schema),
         nav |-> <<home_url, ui["nav_home"], lang_switch_url, ui["lang_switch"]>>,
         main |-> <<
            [id |-> "hero",
             text |-> <<data["category_tag"], data["title"],
                        IF lang = "en" THEN "Watch Order" ELSE "Ordre de Visionnage",
                        data["hero"]["series"], IF lang = "en" THEN "Series" ELSE "Series",
                        data["hero"]["films"], "Films",
                        data["hero"]["hours"], IF lang = "en" THEN "Hours" ELSE "Heures",
                        data["hero"]["updated"], IF lang = "en" THEN "Updated" ELSE "Mis a jour",
                        data["intro"]>>,
             fragment |-> <<>>],
            [id |-> "quick-answer",
             text |-> <<ui["quick_answer_label"], data["quick_answer"]>>,
             fragment |-> <<>>],
            [id |-> "why-confusing", text |-> <<>>, fragment |-> <<why_confusing_html>>],
            [id |-> "paths", text |-> <<ui["paths_heading"]>>, fragment |-> paths_html],
            [id |-> "compare",
             text |-> <<data["dbz_vs_kai"]["heading"], data["dbz_vs_kai"]["intro"]>>,
             fragment |-> compare_html],
            [id |-> "timeline",
             text |-> <<ui["timeline_heading"], ui["col_num"], ui["col_title"], ui["col_type"],
                        ui["col_episodes"], ui["col_when"], ui["col_path"], ui["col_verdict"],
                        ui["col_watch"]>>,
             fragment |-> timeline_rows],
            [id |-> "faq", text |-> <<ui["faq_heading"]>>, fragment |-> faq_html],
            [id |-> "streaming", text |-> <<ui["streaming_heading"]>>,
             fragment |-> streaming_html],
            [id |-> "manga",
             text |-> <<data["manga"]["title"], data["manga"]["description"],
                        data["manga"]["link_url"], data["manga"]["link_text"]>>,
             fragment |-> <<>>] >>,
         footer |-> <<ui["footer_text"], ui["footer_affiliate"]>>]

generate_homepage_raises(lang, s_list) ==
    \E i \in DOMAIN s_list :
        ~({"title", "category_tag"} \subseteq DOMAIN s_list[i]["data"][lang])

\* the <head> of a homepage, with the URLs computed for it
homepage_head(lang, title, description) ==
    LET canonical == IF lang = "en" THEN SITE_URL \o "/" ELSE SITE_URL \o "/fr/"
        en_url == SITE_URL \o "/"
        fr_url == SITE_URL \o "/fr/"
    IN  << <<"meta-charset", "UTF-8">>,
           <<"raw", GTM_HEAD>>,
           <<"raw", GOOGLE_SITE_VERIFICATION>>,
           <<"meta-viewport", "width=device-width, initial-scale=1.0">>,
           <<"title", title>>,
           <<"meta-description", description>>,
           <<"link-canonical", canonical>>,
           <<"link-alternate", "en", en_url>>,
           <<"link-alternate", "fr", fr_url>>,
           <<"link-alternate", "x-default", en_url>>,
           <<"link-stylesheet", "/assets/css/style.css">> >>

generate_homepage(lang, s_list) ==
    LET lang_prefix == IF lang = "fr" THEN "/fr" ELSE ""
        other_prefix == IF lang = "en" THEN "/fr" ELSE ""
        other_lang_label == IF lang = "en" THEN "FR" ELSE "EN"
        other_home == other_prefix \o "/"
        home_url == lang_prefix \o "/"
        title == IF lang = "en"
                 THEN "AnimeWatchOrder.com - Complete Anime Watch Order Guides"
                 ELSE "AnimeWatchOrder.com - Guides d'Ordre de Visionnage Anime"
        description == IF lang = "en"
                 THEN "Clear, structured watch order guides for the most complex anime franchises. Dragon Ball, Naruto, One Piece, and more."
                 ELSE "Des guides clairs et structures pour les franchises anime les plus complexes. Dragon Ball, Naruto, One Piece et plus."
        h1_text == IF lang = "en" THEN "Anime Watch Order Guides"
                   ELSE "Guides d'Ordre de Visionnage Anime"
        subtitle == IF lang = "en"
                 THEN "Clear, structured watch order guides for the most complex anime franchises."
                 ELSE "Des guides clairs et structures pour les franchises anime les plus complexes."
        nav_home == IF lang = "en" THEN "Home" ELSE "Accueil"
        cta_text == IF lang = "en" THEN "View Guide" ELSE "Voir le Guide"
        cards_html == [i \in 1..Len(s_list) |->
                         LET slug == s_list[i]["slug"]
                             d == s_list[i]["data"][lang]
                             link == lang_prefix \o "/" \o slug \o "/"
                             emoji == Get(d, "emoji", "U+1F3AC")
                         IN  <<"series-card", link, emoji, d["title"], d["category_tag"],
                               cta_text>>]
    IN  [lang |-> lang,
         head |-> homepage_head(lang, title, description),
         nav |-> <<home_url, nav_home, other_home, other_lang_label>>,
         main |-> << [id |-> "home-hero", text |-> <<h1_text, subtitle>>,
                      fragment |-> cards_html] >>,
         footer |-> <<"AnimeWatchOrder.com">>]

----------------------------------------------------------------------------
(* Sitemap builder: the sequence of the <url> elements of the urlset *)

\* the x-default alternate points at the element's own URL
sitemap_url_own_default(loc, url, priority) ==
    [loc |-> loc,
     links |-> << <<"en", url["loc_en"]>>, <<"fr", url["loc_fr"]>>, <<"x-default", loc>> >>,
     lastmod |-> "2026-02-12",
     changefreq |-> "monthly",
     priority |-> priority]

\* one <url> element of the sitemap
sitemap_url(loc, url, priority) ==
    [loc |-> loc,
     links |-> << <<"en", url["loc_en"]>>, <<"fr", url["loc_fr"]>>,
                  <<"x-default", url["loc_en"]>> >>,
     lastmod |-> "2026-02-12",
     changefreq |-> "monthly",
     priority |-> priority]

generate_sitemap(series_slugs) ==
    LET urls == << [loc_en |-> SITE_URL \o "/", loc_fr |-> SITE_URL \o "/fr/"] >>
                \o [i \in 1..Len(series_slugs) |->
                      [loc_en |-> SITE_URL \o "/" \o series_slugs[i] \o "/",
                       loc_fr |-> SITE_URL \o "/fr/" \o series_slugs[i] \o "/"]]
        \* each entry holds two <url> elements: the English one, then the French one
        entries == [i \in 1..Len(urls) |->
                      << sitemap_url(urls[i]["loc_en"], urls[i], "1.0"),
                         sitemap_url(urls[i]["loc_fr"], urls[i], "0.9") >>]
    IN  [k \in 1..(2 * Len(entries)) |-> entries[(k + 1) \div 2][2 - (k % 2)]]

----------------------------------------------------------------------------
(* Writer.  A path is the sequence of its components below BASE_DIR.  The  *)
(* text of a document is the sequence of its pieces in the order the       *)
(* template lays them out; a file holds the pieces written to it since it  *)
(* was last truncated; <<"partial", t>> stands for a text that is neither   *)
(* empty nor the whole of t but some start of it, cut at any byte.          *)

\* the string generate_series_page / generate_homepage returns, piece by piece
page_text(html) ==
    <<<<"html", html["lang"]>>>>
    \o [i \in 1..Len(html["head"]) |-> <<"head", html["head"][i]>>]
    \o <<<<"nav", html["nav"]>>>>
    \o [i \in 1..Len(html["main"]) |-> <<"section", html["main"][i]>>]
    \o <<<<"footer", html["footer"]>>>>

\* the string generate_sitemap returns, piece by piece
sitemap_text(sitemap) ==
    <<<<"urlset">>>> \o [i \in 1..Len(sitemap) |-> <<"url", sitemap[i]>>]

\* open(path, "a"): keeps what the file holds
write_file_append(tree, path, content) ==
    (path :> (Get(tree, path, <<>>) \o content)) @@ tree

\* open(path, "w") truncates, f.write(content) writes the whole text
write_file(tree, path, content) ==
    (path :> content) @@ tree

\* open(path, "w") succeeded and the write failed on the way: the file holds
\* what reached it before the failure, nothing at all or some start of the text
write_file_partial(tree, path, content, some) ==
    (path :> (IF some THEN <<<<"partial", content>>>> ELSE <<>>)) @@ tree

----------------------------------------------------------------------------
(* Input data: the guides the inputs are drawn from *)

Without(d, key) == [k \in DOMAIN d \ {key} |-> d[k]]

UiEn ==
    [must_watch |-> "Must Watch", watchable |-> "Watchable", skip |-> "Skip",
     canon |-> "Canon", mixed |-> "Mixed", film_canon |-> "Canon Film",
     non_canon |-> "Non-Canon", filler |-> "Filler episodes",
     recommended_label |-> "Recommended", yes |-> "Yes", no |-> "No",
     why_confusing_label |-> "Why is it confusing?", compare_verdict_label |-> "Verdict",
     nav_home |-> "Home", lang_switch |-> "FR", quick_answer_label |-> "Quick answer",
     paths_heading |-> "Watch paths", timeline_heading |-> "Timeline",
     col_num |-> "#", col_title |-> "Title", col_type |-> "Type", col_episodes |-> "Episodes",
     col_when |-> "When", col_path |-> "Path", col_verdict |-> "Verdict", col_watch |-> "Watch",
     faq_heading |-> "FAQ", streaming_heading |-> "Where to watch",
     footer_text |-> "AnimeWatchOrder.com", footer_affiliate |-> "Affiliate links"]

UiFr ==
    [must_watch |-> "Incontournable", watchable |-> "Regardable", skip |-> "A eviter",
     canon |-> "Canon (fr)", mixed |-> "Mixte", film_canon |-> "Film canon",
     non_canon |-> "Hors canon",
     recommended_label |-> "Recommande", yes |-> "Oui", no |-> "Non",
     why_confusing_label |-> "Pourquoi est-ce confus ?",
     nav_home |-> "Accueil", lang_switch |-> "EN", quick_answer_label |-> "Reponse rapide",
     paths_heading |-> "Parcours", timeline_heading |-> "Chronologie",
     col_num |-> "#", col_title |-> "Titre", col_type |-> "Type", col_episodes |-> "Episodes",
     col_when |-> "Quand", col_path |-> "Parcours", col_verdict |-> "Avis", col_watch |-> "Voir",
     faq_heading |-> "FAQ (fr)", streaming_heading |-> "Ou regarder",
     footer_text |-> "AnimeWatchOrder.com (fr)", footer_affiliate |-> "Liens affilies"]

Ui(lang) == IF lang = "en" THEN UiEn ELSE UiFr

TItem1 ==
    [num |-> 1, title |-> "Dragon Ball", subtitle |-> "Ep 1-153", type |-> "canon",
     episodes |-> "153", when |-> "1986", path |-> "Path A", verdict |-> "must_watch",
     recommended |-> TRUE]

TItem2 ==
    [num |-> 2, title |-> "Dragon Ball GT", subtitle |-> "Ep 1-64", type |-> "non_canon",
     episodes |-> "64", when |-> "1996", path |-> "Path C", verdict |-> "skip",
     notes |-> "Optional sequel", watch_url |-> "https://www.crunchyroll.com/gt"]

TItem3 ==
    [num |-> 3, title |-> "Dragon Ball Daima", subtitle |-> "Ep 1-20", type |-> "ova",
     episodes |-> "20", when |-> "2024", path |-> "Path B", verdict |-> "maybe",
     recommended |-> FALSE]

TimelineItems == {TItem1, TItem2, TItem3}

Faq1 == [question |-> "Where do I start?", answer |-> "With Dragon Ball."]
Faq2 == [question |-> "Is GT canon?", answer |-> "No."]

FaqItems == {Faq1, Faq2}

Film1 ==
    [title |-> "Broly", year |-> 2018, canon |-> TRUE, placement |-> "After Super",
     verdict |-> "must_watch"]

FilmItems == {Film1}

Filler1 ==
    [arc |-> "Garlic Jr.", episodes |-> "108-117", verdict |-> "skip", notes |-> "Anime only"]

FillerItems == {Filler1}

MkGuide(lang, title, timeline, faq, films, fillers) ==
    [title |-> title,
     meta_title |-> title \o (IF lang = "en" THEN " Watch Order (2026)" ELSE " : ordre (2026)"),
     meta_description |-> title \o (IF lang = "en" THEN " in order." ELSE " dans l'ordre."),
     category_tag |-> "Shonen",
     hero |-> [series |-> 5, films |-> 21, hours |-> 300, updated |-> "Feb 2026"],
     intro |-> "Intro of " \o title,
     quick_answer |-> "Start with " \o title,
     ui |-> Ui(lang),
     timeline |-> timeline,
     films |-> films,
     fillers |-> fillers,
     paths |-> << [icon |-> "A", name |-> "Essential", subtitle |-> "Canon only",
                   description |-> "The short way", hours |-> "120h",
                   includes |-> "Z Kai, Super", recommended |-> TRUE],
                  [icon |-> "B", name |-> "Complete", subtitle |-> "Everything",
                   description |-> "The long way", hours |-> "300h",
                   includes |-> "All series"] >>,
     faq |-> faq,
     why_confusing |-> [content |-> "Several continuities."],
     dbz_vs_kai |-> [heading |-> "Z or Kai?", intro |-> "Two cuts of one story.",
                     cards |-> << [title |-> "Kai", subtitle |-> "Recut", recommended |-> TRUE,
                                   color_class |-> "compare-card--kai",
                                   stats |-> << [label |-> "Episodes", value |-> "167"] >>],
                                  [title |-> "Z", subtitle |-> "Original",
                                   stats |-> << [label |-> "Episodes", value |-> "291"] >>] >>,
                     verdict |-> "Watch Kai."],
     streaming |-> << [icon |-> "CR", platform |-> "Crunchyroll",
                       available |-> <<"Dragon Ball", "Super">>,
                       url |-> "https://www.crunchyroll.com", cta |-> "Watch"],
                      [icon |-> "NF", platform |-> "Netflix", available |-> <<"Z">>,
                       url |-> "https://www.netflix.com", cta |-> "Open"] >>,
     manga |-> [title |-> "Read the manga", description |-> "The story goes on.",
                link_url |-> "https://www.viz.com", link_text |-> "Viz"]]

\* guides that lack a field rendering needs
BrokenGuides(lang) ==
    LET g == MkGuide(lang, "Naruto", <<TItem1>>, <<Faq1>>, <<Film1>>, <<Filler1>>)
    IN  {Without(g, "intro"), Without(g, "faq"),
         [g EXCEPT !["ui"] = Without(g["ui"], "skip")],
         [g EXCEPT !["timeline"] = <<Without(TItem1, "when")>>]}

\* the documents data/<slug>.json may hold
DocFull ==
    [en |-> MkGuide("en", "Dragon Ball", <<TItem1, TItem2>>, <<Faq1, Faq2>>, <<Film1>>, <<Filler1>>),
     fr |-> MkGuide("fr", "Dragon Ball", <<TItem1, TItem2>>, <<Faq1, Faq2>>, <<Film1>>, <<Filler1>>)]

DocShort ==
    [en |-> MkGuide("en", "Naruto", <<TItem3>>, <<>>, <<>>, <<>>) @@ [emoji |-> "N"],
     fr |-> MkGuide("fr", "Naruto", <<TItem3>>, <<>>, <<>>, <<>>) @@ [emoji |-> "N"]]

DocNoFr == [en |-> DocFull["en"]]

DocBrokenFr == [en |-> DocFull["en"], fr |-> Without(DocFull["fr"], "intro")]

Docs == {DocFull, DocShort, DocNoFr, DocBrokenFr}

FileStates ==
    {[kind |-> "missing"], [kind |-> "malformed"]} \cup {[kind |-> "ok", raw |-> d] : d \in Docs}

----------------------------------------------------------------------------
(* The orchestrator *)

load_json(dir, slug) ==
    IF dir[slug]["kind"] = "missing" THEN [outcome |-> "exit"]
    ELSE IF dir[slug]["kind"] = "malformed" THEN [outcome |-> "raise"]
    ELSE [outcome |-> "return", value |-> dir[slug]["raw"]]

\* the loop over SERIES has run only once
LoadDoneEarly(s_list) == Len(s_list) >= 1

\* the loop "for slug in SERIES" of the load step has run for every slug
LoadDone(s_list) == Len(s_list) = Len(SERIES)

\* both languages of a series go to the English path
series_out_path_nolang(slug, lang) == <<slug, "index.html">>

series_out_path(slug, lang) ==
    IF lang = "en" THEN <<slug, "index.html">> ELSE <<"fr", slug, "index.html">>

home_out_path(lang) ==
    IF lang = "en" THEN <<"index.html">> ELSE <<"fr", "index.html">>

sitemap_out_path == <<"sitemap.xml">>

\* an uncaught exception that leaves the exit status at 0
AbortStatusZero ==
    /\ pc' = "error"
    /\ exit_code' = 0

\* The status the process ends with.  When it exits, the interpreter flushes
\* stdout; if what the prints left in the buffer cannot be written, the status
\* is 120 whatever it was to be (0 of a normal end, 1 of sys.exit(1) or of an
\* uncaught exception).
exit_status(status, flushed) == IF flushed THEN status ELSE 120

\* an uncaught exception, an OSError of print included: the interpreter prints
\* the traceback and exits.  After a print that raised, the flush at exit
\* succeeds when nothing is left in the buffer (PYTHONUNBUFFERED, a buffer that
\* overflowed) and fails when the text is still there (a terminal that went away).
Abort ==
    /\ pc' = "error"
    /\ \E flushed \in BOOLEAN : exit_code' = exit_status(1, flushed)

\* write_file(path, content), then on to position <<next_pc, next_idx>>.  The
\* call fails before the file is opened (mkdir, open), while the text is
\* written (the file keeps a proper prefix of it), or after the file is
\* complete, when the print that follows cannot write to stdout; the last
\* case is also main's closing prints failing after the sitemap.  After the
\* last write main returns and the process exits.
Write(path, content, next_pc, next_idx) ==
    \/ /\ fs' = write_file(fs, path, content)
       /\ written' = Append(written, path)
       /\ pc' = next_pc
       /\ idx' = next_idx
       /\ \E flushed \in BOOLEAN :
             exit_code' = IF next_pc = "done" THEN exit_status(0, flushed) ELSE exit_code
    \/ /\ Abort
       /\ UNCHANGED <<fs, written, idx>>
    \/ \E some \in BOOLEAN :
          /\ Abort
          /\ fs' = write_file_partial(fs, path, content, some)
          /\ UNCHANGED <<written, idx>>
    \/ /\ Abort
       /\ fs' = write_file(fs, path, content)
       /\ written' = Append(written, path)
       /\ UNCHANGED idx

\* [1/4] one iteration of the loop that loads the series; the print that opens
\* it (and, before the first, the banner) raises when stdout cannot be written
Load ==
    /\ pc = "load"
    /\ \E stdout_ok \in BOOLEAN :
       LET slug == SERIES[Len(series_list) + 1]
           r == load_json(datadir, slug)
       IN  IF ~stdout_ok
           THEN /\ Abort
                /\ UNCHANGED <<series_list, idx>>
           ELSE IF r["outcome"] = "exit"
           THEN /\ pc' = "exit"
                /\ \E flushed \in BOOLEAN : exit_code' = exit_status(1, flushed)
                /\ UNCHANGED <<series_list, idx>>
           ELSE IF r["outcome"] = "raise" \/ ~({"en", "fr"} \subseteq DOMAIN r["value"])
           THEN /\ Abort
                /\ UNCHANGED <<series_list, idx>>
           ELSE /\ series_list' = Append(series_list,
                                         [slug |-> slug,
                                          data |-> [en |-> r["value"]["en"],
                                                    fr |-> r["value"]["fr"]]])
                /\ pc' = IF LoadDone(series_list') THEN "series" ELSE "load"
                /\ idx' = 1
                /\ UNCHANGED exit_code
    /\ UNCHANGED <<datadir, fs, written, run, prev_fs, prev_pc, inp, out>>

\* [2/4] one iteration of the loops over series_list and the two languages
SeriesPage ==
    /\ pc = "series"
    /\ LET s == series_list[(idx + 1) \div 2]
           lang == Langs[2 - (idx % 2)]
           slug == s["slug"]
           data == s["data"][lang]
           last == idx = 2 * Len(series_list)
       IN  IF generate_series_page_raises(slug, data, lang)
           THEN /\ Abort
                /\ UNCHANGED <<fs, written, idx>>
           ELSE Write(series_out_path(slug, lang),
                      page_text(generate_series_page(slug, data, lang)),
                      IF last THEN "home" ELSE "series", IF last THEN 1 ELSE idx + 1)
    /\ UNCHANGED <<datadir, series_list, run, prev_fs, prev_pc, inp, out>>

\* [3/4] one iteration of the loop over the two languages
Homepage ==
    /\ pc = "home"
    /\ LET lang == Langs[idx]
           last == idx = Len(Langs)
       IN  IF generate_homepage_raises(lang, series_list)
           THEN /\ Abort
                /\ UNCHANGED <<fs, written, idx>>
           ELSE Write(home_out_path(lang), page_text(generate_homepage(lang, series_list)),
                      IF last THEN "sitemap" ELSE "home", IF last THEN 1 ELSE idx + 1)
    /\ UNCHANGED <<datadir, series_list, run, prev_fs, prev_pc, inp, out>>

\* [4/4] the sitemap, then main returns
Sitemap ==
    /\ pc = "sitemap"
    /\ Write(sitemap_out_path, sitemap_text(generate_sitemap(SERIES)), "done", 1)
    /\ UNCHANGED <<datadir, series_list, run, prev_fs, prev_pc, inp, out>>

\* the program is run again on the same data directory and output tree
Rerun ==
    /\ pc \in {"done", "exit", "error"}
    /\ run < MaxRuns
    /\ run' = run + 1
    /\ prev_fs' = fs
    /\ prev_pc' = pc
    /\ pc' = "load"
    /\ exit_code' = -1
    /\ series_list' = <<>>
    /\ idx' = 1
    /\ written' = <<>>
    /\ UNCHANGED <<datadir, fs, inp, out>>

NoInput == [fn |-> "none"]

Init ==
    /\ datadir \in [Range(SERIES) -> FileStates]
    /\ pc = "load"
    /\ exit_code = -1
    /\ series_list = <<>>
    /\ idx = 1
    /\ fs = <<>>
    /\ written = <<>>
    /\ run = 1
    /\ prev_fs = <<>>
    /\ prev_pc = "none"
    /\ inp = NoInput
    /\ out = NoInput

Next ==
    \/ Load
    \/ SeriesPage
    \/ Homepage
    \/ Sitemap
    \/ Rerun

Spec == Init /\ [][Next]_vars

----------------------------------------------------------------------------
(* The pure functions, applied to inputs drawn from bounded sets *)

TypeSet == {"canon", "mixed", "film_canon", "non_canon", "filler"}

VerdictSet == {"must_watch", "watchable", "skip"}

TypeValues == TypeSet \cup {"ova", "Canon", ""}

VerdictValues == VerdictSet \cup {"maybe", "SKIP", ""}

UiValues == {UiEn, UiFr, Without(UiEn, "skip"), Without(UiFr, "canon")}

SlugValues == {"dragon-ball", "naruto", "one-piece"}

LoadedSeries ==
    {[slug |-> "dragon-ball", data |-> DocFull], [slug |-> "naruto", data |-> DocShort]}

FmtInputs ==
    {[fn |-> "fmt", type_key |-> t, verdict |-> v, ui |-> u] :
        t \in TypeValues, v \in VerdictValues, u \in UiValues}

SitemapInputs ==
    {[fn |-> "sitemap", slugs |-> l] : l \in SeqUpTo(SlugValues, MaxSlugs)}

\* a guide input: a well-formed guide with the given sequences
GuideInput(slug, lang, timeline, faq, films, fillers) ==
    [fn |-> "guide", slug |-> slug, lang |-> lang,
     data |-> MkGuide(lang, "Dragon Ball", timeline, faq, films, fillers)]

HomeInputs ==
    {[fn |-> "home", lang |-> lang, series_list |-> l] :
        lang \in Range(Langs), l \in SeqUpTo(LoadedSeries, MaxSlugs)}

ApplyFormatters ==
    /\ inp["fn"] = "fmt"
    /\ out = NoInput
    /\ out' = [fn |-> "fmt",
               badge_class |-> badge_class(inp["type_key"]),
               verdict_class |-> verdict_class(inp["verdict"]),
               type_label |-> type_label(inp["type_key"], inp["ui"]),
               verdict_label |-> verdict_label(inp["verdict"], inp["ui"])]
    /\ UNCHANGED <<datadir, pc, exit_code, series_list, idx, fs, written, run, prev_fs,
                   prev_pc, inp>>

ApplyRenderers ==
    /\ inp["fn"] = "guide"
    /\ out = NoInput
    /\ LET data == inp["data"]
           raised == \/ "ui" \notin DOMAIN data
                     \/ build_timeline_rows_raises(data, data["ui"])
                     \/ build_films_rows_raises(data, data["ui"])
                     \/ build_fillers_rows_raises(data, data["ui"])
                     \/ build_schema_json_raises(data)
                     \/ build_faq_schema_raises(data)
       IN  out' = IF raised THEN [fn |-> "fragments", raised |-> TRUE]
                  ELSE [fn |-> "fragments", raised |-> FALSE,
                        timeline_rows |-> build_timeline_rows(data, data["ui"]),
                        films_rows |-> build_films_rows(data, data["ui"]),
                        fillers_rows |-> build_fillers_rows(data, data["ui"]),
                        howto_schema |-> build_schema_json(data, inp["slug"], inp["lang"]),
                        faq_schema |-> build_faq_schema(data)]
    /\ UNCHANGED <<datadir, pc, exit_code, series_list, idx, fs, written, run, prev_fs,
                   prev_pc, inp>>

ApplySeriesPage ==
    /\ inp["fn"] = "guide"
    /\ out = NoInput
    /\ out' = IF generate_series_page_raises(inp["slug"], inp["data"], inp["lang"])
              THEN [fn |-> "page", raised |-> TRUE]
              ELSE [fn |-> "page", raised |-> FALSE,
                    html |-> generate_series_page(inp["slug"], inp["data"], inp["lang"])]
    /\ UNCHANGED <<datadir, pc, exit_code, series_list, idx, fs, written, run, prev_fs,
                   prev_pc, inp>>

ApplyHomepage ==
    /\ inp["fn"] = "home"
    /\ out = NoInput
    /\ out' = IF generate_homepage_raises(inp["lang"], inp["series_list"])
              THEN [fn |-> "home", raised |-> TRUE]
              ELSE [fn |-> "home", raised |-> FALSE,
                    html |-> generate_homepage(inp["lang"], inp["series_list"])]
    /\ UNCHANGED <<datadir, pc, exit_code, series_list, idx, fs, written, run, prev_fs,
                   prev_pc, inp>>

ApplySitemap ==
    /\ inp["fn"] = "sitemap"
    /\ out = NoInput
    /\ out' = [fn |-> "sitemap", sitemap |-> generate_sitemap(inp["slugs"])]
    /\ UNCHANGED <<datadir, pc, exit_code, series_list, idx, fs, written, run, prev_fs,
                   prev_pc, inp>>

InitFn ==
    /\ datadir = [s \in Range(SERIES) |-> [kind |-> "missing"]]
    /\ pc = "idle"
    /\ exit_code = -1
    /\ series_list = <<>>
    /\ idx = 1
    /\ fs = <<>>
    /\ written = <<>>
    /\ run = 1
    /\ prev_fs = <<>>
    /\ prev_pc = "none"
    /\ \/ inp \in FmtInputs
       \/ inp \in SitemapInputs
       \/ inp \in HomeInputs
       \/ \E slug \in Range(SERIES), lang \in Range(Langs) :
             \/ \E tl \in SeqUpTo(TimelineItems, MaxLen), fq \in SeqUpTo(FaqItems, MaxLen),
                   fi \in SeqUpTo(FilmItems, MaxRows), fl \in SeqUpTo(FillerItems, MaxRows) :
                   inp = GuideInput(slug, lang, tl, fq, fi, fl)
             \/ \E d \in BrokenGuides(lang) :
                   inp = [fn |-> "guide", slug |-> slug, lang |-> lang, data |-> d]
    /\ out = NoInput

NextFn ==
    \/ ApplyFormatters
    \/ ApplyRenderers
    \/ ApplySeriesPage
    \/ ApplyHomepage
    \/ ApplySitemap

SpecFn == InitFn /\ [][NextFn]_vars

----------------------------------------------------------------------------
(* Properties *)

IsPrefix(s, t) == Len(s) <= Len(t) /\ \A i \in 1..Len(s) : s[i] = t[i]

AnyMissing == \E s \in Range(SERIES) : datadir[s]["kind"] = "missing"

\* C1: when the data file of some configured slug is missing, wherever the slug
\* stands in SERIES, the run never leaves the load step, it writes no output file
\* (the output tree stays as the run found it), and once it has stopped its exit
\* status is not 0 (1, or 120 when stdout could not be flushed).
C1_MissingFileWritesNothing ==
    AnyMissing =>
        /\ pc \in {"load", "exit", "error"}
        /\ written = <<>>
        /\ fs = prev_fs
        /\ pc # "load" => exit_code \in {1, 120}

\* C1 witness: the first file is there, the second is missing, and the run has
\* exited with status 1 after loading the first, with nothing written.
C1_Witness ==
    /\ datadir[SERIES[1]]["kind"] = "ok"
    /\ datadir[SERIES[2]]["kind"] = "missing"
    /\ pc = "exit"
    /\ exit_code = 1
    /\ Len(series_list) = 1
    /\ written = <<>>

\* the writes of a complete run, in the order the steps make them
ExpectedWrites ==
    [k \in 1..(2 * Len(SERIES)) |->
        IF k % 2 = 1 THEN <<SERIES[(k + 1) \div 2], "index.html">>
        ELSE <<"fr", SERIES[k \div 2], "index.html">>]
    \o << <<"index.html">>, <<"fr", "index.html">>, <<"sitemap.xml">> >>

\* C2: the writes of a run are, at every moment, a prefix of: each series' English
\* then French page in SERIES order, the English then the French homepage, the
\* sitemap; a write happens only once every series is loaded, every write made
\* leaves the run at the step that follows it, and a run that has aborted changes
\* no file any more.
C2_StepsInOrder ==
    /\ [](/\ IsPrefix(written, ExpectedWrites)
          /\ written # <<>> => Len(series_list) = Len(SERIES)
          /\ pc = "load" => written = <<>>
          /\ pc = "series" => Len(written) = idx - 1
          /\ pc = "home" => Len(written) = 2 * Len(SERIES) + idx - 1
          /\ pc = "sitemap" => Len(written) = 2 * Len(SERIES) + 2
          /\ pc = "done" => written = ExpectedWrites)
    /\ [][(pc \in {"exit", "error"}) => UNCHANGED fs]_vars

\* C2 witness: a run that failed while writing the first homepage, after the four
\* series pages, and left the start of the homepage in its file.
C2_Witness ==
    /\ pc = "error"
    /\ Len(written) = 2 * Len(SERIES)
    /\ written = SubSeq(ExpectedWrites, 1, 2 * Len(SERIES))
    /\ <<"index.html">> \in DOMAIN fs
    /\ Len(fs[<<"index.html">>]) = 1
    /\ fs[<<"index.html">>][1][1] = "partial"
    /\ <<"sitemap.xml">> \notin DOMAIN fs

ExpectedPaths ==
    {<<"index.html">>, <<"fr", "index.html">>, <<"sitemap.xml">>}
    \cup {<<SERIES[i], "index.html">> : i \in DOMAIN SERIES}
    \cup {<<"fr", SERIES[i], "index.html">> : i \in DOMAIN SERIES}

\* the documents a file holds: one for every opening piece
DocumentsIn(text) == Cardinality({i \in DOMAIN text : text[i][1] \in {"html", "urlset"}})

\* C3: a run that completes has written exactly index.html, fr/index.html,
\* sitemap.xml and, for every configured slug, <slug>/index.html and
\* fr/<slug>/index.html, each of them exactly once, and each holds one document.
C3_PathsWrittenOnce ==
    pc = "done" =>
        /\ Range(written) = ExpectedPaths
        /\ \A i, j \in DOMAIN written : written[i] = written[j] => i = j
        /\ \A p \in ExpectedPaths : p \in DOMAIN fs /\ DocumentsIn(fs[p]) = 1

\* C3 witness: a completed first run with its seven files.
C3_Witness ==
    /\ pc = "done"
    /\ run = 1
    /\ Len(written) = 2 * Len(SERIES) + 3
    /\ DOMAIN fs = ExpectedPaths

\* C4: badge_class returns the token of a type of the closed set and badge--canon
\* for any other value; verdict_class returns the token of a verdict of the closed
\* set and verdict--watchable for any other value.
C4_ClassFallback ==
    out["fn"] = "fmt" =>
        /\ out["badge_class"] =
              CASE inp["type_key"] = "canon" -> "badge--canon"
                [] inp["type_key"] = "mixed" -> "badge--mixed"
                [] inp["type_key"] = "film_canon" -> "badge--film-canon"
                [] inp["type_key"] = "non_canon" -> "badge--non-canon"
                [] inp["type_key"] = "filler" -> "badge--filler"
                [] OTHER -> "badge--canon"
        /\ out["verdict_class"] =
              CASE inp["verdict"] = "must_watch" -> "verdict--must-watch"
                [] inp["verdict"] = "watchable" -> "verdict--watchable"
                [] inp["verdict"] = "skip" -> "verdict--skip"
                [] OTHER -> "verdict--watchable"

\* C4 witness: both formatters applied to values outside their closed sets.
C4_Witness ==
    /\ out["fn"] = "fmt"
    /\ inp["type_key"] = "ova"
    /\ inp["verdict"] = "maybe"
    /\ out["badge_class"] = "badge--canon"
    /\ out["verdict_class"] = "verdict--watchable"

\* C5 as stated: for a type outside the closed set type_label returns ui["canon"],
\* and for a verdict outside the closed set verdict_label returns ui["watchable"].
C5_LabelDefaultsToCategory ==
    out["fn"] = "fmt" =>
        /\ inp["type_key"] \notin TypeSet =>
              "canon" \in DOMAIN inp["ui"] /\ out["type_label"] = inp["ui"]["canon"]
        /\ inp["verdict"] \notin VerdictSet =>
              "watchable" \in DOMAIN inp["ui"] /\ out["verdict_label"] = inp["ui"]["watchable"]

\* C5 amended: when ui holds the keys a formatter's table reads, the formatter
\* returns, for a value outside the closed set, that value itself; when ui lacks
\* one of those keys it raises KeyError, whatever the value.
C5_LabelEchoesUnknown ==
    out["fn"] = "fmt" =>
        /\ IF type_label_keys \subseteq DOMAIN inp["ui"]
           THEN inp["type_key"] \notin TypeSet => out["type_label"] = inp["type_key"]
           ELSE out["type_label"] = KeyError
        /\ IF verdict_label_keys \subseteq DOMAIN inp["ui"]
           THEN inp["verdict"] \notin VerdictSet => out["verdict_label"] = inp["verdict"]
           ELSE out["verdict_label"] = KeyError

\* C5 witness: an unknown type and an unknown verdict handed back as their labels.
C5_Witness ==
    /\ out["fn"] = "fmt"
    /\ inp["ui"] = UiEn
    /\ inp["type_key"] = "ova"
    /\ inp["verdict"] = "maybe"
    /\ out["type_label"] = "ova"
    /\ out["verdict_label"] = "maybe"

\* C6: for n slugs the sitemap holds 2*(n+1) <url> elements: the homepage pair,
\* then an (English, French) pair per slug in input order; the <loc> of an element
\* is the URL of its own language, and its alternates are exactly en, fr and
\* x-default, en and x-default at the pair's English URL and fr at its French URL.
C6_SitemapEntries ==
    out["fn"] = "sitemap" =>
        LET sm == out["sitemap"]
            slugs == inp["slugs"]
            n == Len(slugs)
            loc_en(i) == IF i = 0 THEN "https://animewatchorder.com/"
                         ELSE "https://animewatchorder.com/" \o slugs[i] \o "/"
            loc_fr(i) == IF i = 0 THEN "https://animewatchorder.com/fr/"
                         ELSE "https://animewatchorder.com/fr/" \o slugs[i] \o "/"
        IN  /\ Len(sm) = 2 * (n + 1)
            /\ \A i \in 0..n :
                  /\ sm[2 * i + 1]["loc"] = loc_en(i)
                  /\ sm[2 * i + 2]["loc"] = loc_fr(i)
                  /\ \A k \in {2 * i + 1, 2 * i + 2} :
                        /\ Len(sm[k]["links"]) = 3
                        /\ Range(sm[k]["links"]) =
                              {<<"en", loc_en(i)>>, <<"fr", loc_fr(i)>>,
                               <<"x-default", loc_en(i)>>}

\* C6 witness: the sitemap of ["dragon-ball", "naruto"] with its six elements.
C6_Witness ==
    /\ out["fn"] = "sitemap"
    /\ inp["slugs"] = <<"dragon-ball", "naruto">>
    /\ Len(out["sitemap"]) = 6
    /\ out["sitemap"][6]["loc"] = "https://animewatchorder.com/fr/naruto/"

\* C7: the how-to schema has one HowToStep per timeline entry, in timeline order,
\* named after the entry's title; the FAQ schema has one Question per FAQ entry,
\* in FAQ order, with the entry's question and answer.
C7_SchemaOnePerEntry ==
    (out["fn"] = "fragments" /\ ~out["raised"]) =>
        LET timeline == inp["data"]["timeline"]
            faq == inp["data"]["faq"]
            step == out["howto_schema"]["step"]
            entity == out["faq_schema"]["mainEntity"]
        IN  /\ Len(step) = Len(timeline)
            /\ \A i \in DOMAIN timeline :
                  /\ step[i]["@type"] = "HowToStep"
                  /\ step[i]["name"] = timeline[i]["title"]
            /\ Len(entity) = Len(faq)
            /\ \A i \in DOMAIN faq :
                  /\ entity[i]["@type"] = "Question"
                  /\ entity[i]["name"] = faq[i]["question"]
                  /\ entity[i]["acceptedAnswer"]["text"] = faq[i]["answer"]

\* C7 witness: schemas built from two different timeline entries and two
\* different FAQ entries.
C7_Witness ==
    /\ out["fn"] = "fragments"
    /\ ~out["raised"]
    /\ inp["data"]["timeline"] = <<TItem2, TItem1>>
    /\ inp["data"]["faq"] = <<Faq2, Faq1>>
    /\ Len(out["howto_schema"]["step"]) = 2
    /\ out["howto_schema"]["step"][1]["name"] = "Dragon Ball GT"
    /\ out["faq_schema"]["mainEntity"][2]["name"] = "Where do I start?"

\* C8: a run that completes right after a run that completed, on the same data,
\* leaves every output file with the content the earlier run left in it.
C8_SecondRunSameOutput ==
    (pc = "done" /\ run >= 2 /\ prev_pc = "done") => fs = prev_fs

\* C8 witness: a second run has completed after a complete first run.
C8_Witness ==
    /\ pc = "done"
    /\ run = 2
    /\ prev_pc = "done"
    /\ DOMAIN fs = ExpectedPaths
    /\ fs = prev_fs

\* the fragments the sections of a document embed
Embedded(html) == UNION {Range(html["main"][i]["fragment"]) : i \in DOMAIN html["main"]}

\* C9 as stated: the series page embeds the output of every fragment renderer; in
\* particular every film row and every filler row is in the page.
C9_PageEmbedsEveryFragment ==
    (out["fn"] = "page" /\ ~out["raised"]) =>
        LET data == inp["data"]
            ui == data["ui"]
            html == out["html"]
        IN  /\ Range(build_timeline_rows(data, ui)) \subseteq Embedded(html)
            /\ Range(build_paths_html(data, ui)) \subseteq Embedded(html)
            /\ Range(build_faq_html(data)) \subseteq Embedded(html)
            /\ build_why_confusing_html(data, ui) \in Embedded(html)
            /\ Range(build_compare_html(data, ui)) \subseteq Embedded(html)
            /\ Range(build_streaming_html(data, ui)) \subseteq Embedded(html)
            /\ <<"script-ld+json", build_schema_json(data, inp["slug"], inp["lang"])>>
                  \in Range(html["head"])
            /\ <<"script-ld+json", build_faq_schema(data)>> \in Range(html["head"])
            /\ Range(build_films_rows(data, ui)) \subseteq Embedded(html)
            /\ Range(build_fillers_rows(data, ui)) \subseteq Embedded(html)

\* C10 as stated: every generated page, series page or homepage, has the analytics
\* snippet and the site-verification tag in its head.
C10_EveryPageHasBothSnippets ==
    (out["fn"] \in {"page", "home"} /\ ~out["raised"]) =>
        /\ <<"raw", GTM_HEAD>> \in Range(out["html"]["head"])
        /\ <<"raw", GOOGLE_SITE_VERIFICATION>> \in Range(out["html"]["head"])

\* C10 amended: every generated page has the analytics snippet in its head; the
\* site-verification tag is in the head of the two homepages and of no series page.
C10_SnippetEverywhereTagOnHome ==
    (out["fn"] \in {"page", "home"} /\ ~out["raised"]) =>
        /\ <<"raw", GTM_HEAD>> \in Range(out["html"]["head"])
        /\ <<"raw", GOOGLE_SITE_VERIFICATION>> \in Range(out["html"]["head"])
              <=> out["fn"] = "home"

\* C10 witness: a French series page with the snippet and without the tag.
C10_Witness ==
    /\ out["fn"] = "page"
    /\ ~out["raised"]
    /\ out["html"]["lang"] = "fr"
    /\ <<"raw", GTM_HEAD>> \in Range(out["html"]["head"])
    /\ <<"raw", GOOGLE_SITE_VERIFICATION>> \notin Range(out["html"]["head"])

\* the slug the load step was at when the run stopped in it
StoppedAtSlug == SERIES[Len(series_list) + 1]

\* C11 as stated: a run that ends with a non-zero exit status is a run in which
\* load_json found no file for a configured slug.
C11_NonZeroOnlyOnMissingFile ==
    (pc \in {"done", "exit", "error"} /\ exit_code # 0) =>
        /\ pc = "exit"
        /\ datadir[StoppedAtSlug]["kind"] = "missing"

\* C11 amended: a run ends with status 0 only when it completed every step; it
\* ends with a non-zero status when load_json found no file (sys.exit(1)), when
\* an exception went unhandled (a file that does not parse or lacks a language, a
\* guide that lacks a field, a failed write, a failed print) -- status 1, or 120
\* when stdout could not be flushed at exit -- and, with status 120, also when
\* every step completed and stdout could not be flushed; sys.exit is reached
\* only on a missing file.
C11_NonZeroOnEveryFailure ==
    /\ pc \in {"load", "series", "home", "sitemap"} => exit_code = -1
    /\ pc = "done" => exit_code \in {0, 120} /\ written = ExpectedWrites
    /\ pc \in {"exit", "error"} => exit_code \in {1, 120}
    /\ exit_code = 0 => pc = "done"
    /\ pc = "exit" => datadir[StoppedAtSlug]["kind"] = "missing"

\* C11 witness: every data file is there, the first does not parse, and the run
\* has ended with status 1.
C11_Witness ==
    /\ ~AnyMissing
    /\ datadir[SERIES[1]]["kind"] = "malformed"
    /\ pc = "error"
    /\ exit_code = 1
    /\ written = <<>>

\* the positions of the head elements with the given tag
HeadElements(head, tag) == {i \in DOMAIN head : head[i][1] = tag}

\* the hrefs of the head's alternate links for the given hreflang
AlternateHrefs(head, hreflang) ==
    {head[i][3] : i \in {j \in HeadElements(head, "link-alternate") : head[j][2] = hreflang}}

\* C12: a series page has exactly one title, exactly one canonical link and exactly
\* one alternate link for each of en, fr and x-default; the canonical URL is
\* SITE_URL/<slug>/ on the English page and SITE_URL/fr/<slug>/ on the French one,
\* x-default has the URL of the en alternate, and the en and fr alternates are
\* those of the page's other language version.
C12_HeadLinks ==
    (out["fn"] = "page" /\ ~out["raised"]) =>
        LET head == out["html"]["head"]
            slug == inp["slug"]
            en_url == "https://animewatchorder.com/" \o slug \o "/"
            fr_url == "https://animewatchorder.com/fr/" \o slug \o "/"
            other_lang == IF inp["lang"] = "en" THEN "fr" ELSE "en"
            other_head == generate_series_page(slug, inp["data"], other_lang)["head"]
        IN  /\ Cardinality(HeadElements(head, "title")) = 1
            /\ <<"title", inp["data"]["meta_title"]>> \in Range(head)
            /\ Cardinality(HeadElements(head, "link-canonical")) = 1
            /\ <<"link-canonical", IF inp["lang"] = "en" THEN en_url ELSE fr_url>>
                  \in Range(head)
            /\ Cardinality(HeadElements(head, "link-alternate")) = 3
            /\ \A h \in {"en", "fr", "x-default"} :
                  Cardinality({i \in HeadElements(head, "link-alternate") : head[i][2] = h}) = 1
            /\ AlternateHrefs(head, "en") = {en_url}
            /\ AlternateHrefs(head, "fr") = {fr_url}
            /\ AlternateHrefs(head, "x-default") = AlternateHrefs(head, "en")
            /\ AlternateHrefs(other_head, "en") = AlternateHrefs(head, "en")
            /\ AlternateHrefs(other_head, "fr") = AlternateHrefs(head, "fr")

\* C12 witness: the French page of naruto, canonical at its French URL and
\* x-default at its English URL.
C12_Witness ==
    /\ out["fn"] = "page"
    /\ ~out["raised"]
    /\ inp["slug"] = "naruto"
    /\ inp["lang"] = "fr"
    /\ <<"link-canonical", "https://animewatchorder.com/fr/naruto/">>
          \in Range(out["html"]["head"])
    /\ <<"link-alternate", "x-default", "https://animewatchorder.com/naruto/">>
          \in Range(out["html"]["head"])

\* the entries of a timeline whose `recommended` flag is set
Flagged(timeline) ==
    {i \in DOMAIN timeline :
        "recommended" \in DOMAIN timeline[i] /\ timeline[i]["recommended"] = TRUE}

\* C13: build_timeline_rows emits one row per timeline entry, in timeline order; a
\* row has the class row--recommended and the recommended tag exactly when its
\* entry's flag is set, so as many rows are marked as entries are flagged, be it
\* none or several; the badge class, verdict class and verdict label of a row are
\* those of its own entry: badge--canon, verdict--must-watch and ui["must_watch"]
\* for a canon / must_watch entry.
C13_TimelineRows ==
    (out["fn"] = "fragments" /\ ~out["raised"]) =>
        LET timeline == inp["data"]["timeline"]
            ui == inp["data"]["ui"]
            rows == out["timeline_rows"]
        IN  /\ Len(rows) = Len(timeline)
            /\ \A i \in DOMAIN timeline :
                  /\ rows[i][1] = "tr"
                  /\ rows[i][3] = timeline[i]["num"]
                  /\ rows[i][4] = timeline[i]["title"]
                  /\ rows[i][2] = (IF i \in Flagged(timeline) THEN "row--recommended" ELSE "")
                  /\ rows[i][5] = (IF i \in Flagged(timeline) THEN ui["recommended_label"] ELSE "")
                  /\ rows[i][7] = badge_class(timeline[i]["type"])
                  /\ rows[i][12] = verdict_class(timeline[i]["verdict"])
                  /\ rows[i][13] = verdict_label(timeline[i]["verdict"], ui)
                  /\ (timeline[i]["type"] = "canon" /\ timeline[i]["verdict"] = "must_watch") =>
                        /\ rows[i][7] = "badge--canon"
                        /\ rows[i][12] = "verdict--must-watch"
                        /\ rows[i][13] = ui["must_watch"]
            /\ Cardinality({i \in DOMAIN rows : rows[i][2] = "row--recommended"})
                  = Cardinality(Flagged(timeline))

\* C13 witness: a timeline of two flagged canon / must_watch entries, both rows
\* marked.
C13_Witness ==
    /\ out["fn"] = "fragments"
    /\ ~out["raised"]
    /\ inp["lang"] = "en"
    /\ inp["data"]["timeline"] = <<TItem1, TItem1>>
    /\ Len(out["timeline_rows"]) = 2
    /\ \A i \in 1..2 :
          /\ out["timeline_rows"][i][2] = "row--recommended"
          /\ out["timeline_rows"][i][5] = "Recommended"
          /\ out["timeline_rows"][i][7] = "badge--canon"
          /\ out["timeline_rows"][i][13] = "Must Watch"

====
